---- MODULE Spec2Model ----
(***************************************************************************)
(* Model of agri/backend/app.py: the /api/chat endpoint (chat), its two    *)
(* payload builders (handle_image_query, handle_text_query) and the        *)
(* retrying gateway client (call_gemini_api).                              *)
(*                                                                         *)
(* One request is served at a time.  The AI service is the environment:    *)
(* every outbound attempt draws its outcome from the transport failures    *)
(* and from a bounded set of JSON bodies.                                  *)
(***************************************************************************)
EXTENDS Integers, Sequences, FiniteSets, TLC

VARIABLES
    pc,            \* "idle" | "call" (inside the loop of call_gemini_api) | "done"
    data,          \* request.json of the request being served
    user_message,  \* local of chat
    image_data,    \* local of chat
    invoked,       \* builders invoked for this request, in order
    payload,       \* argument handed to call_gemini_api
    i,             \* loop variable of call_gemini_api
    calls,         \* number of requests.post calls made for this request
    sleeps,        \* durations passed to time.sleep, in order
    outcomes,      \* outcome of each outbound attempt, in order:
                   \* "transport" | "not_json" | "2xx"
    error,         \* class of the exception printed last ("" if none)
    api_response,  \* body parsed by the last attempt that got a JSON 2xx
    ret,           \* how call_gemini_api ended
    status,        \* HTTP status of the endpoint's answer (0: none yet)
    response       \* value under key "response" of the endpoint's answer

vars == <<pc, data, user_message, image_data, invoked, payload, i, calls,
          sleeps, outcomes, error, api_response, ret, status, response>>

----------------------------------------------------------------------------
(* Bounds of the explored inputs *)

MaxImgLen == 2      \* longest imageData string
MaxExtra == 1       \* list items following the first one in a response body

----------------------------------------------------------------------------
(* Python / JSON values *)

None == [t |-> "None"]
Str(s) == [t |-> "str", s |-> s]

JNull == [t |-> "null"]
JStr(s) == [t |-> "str", s |-> s]
JList(items) == [t |-> "list", items |-> items]
JDict(map) == [t |-> "dict", map |-> map]
EmptyMap == [k \in {} |-> JNull]

\* result of evaluating a Python expression: a value or a raised exception
Ok(v) == [exc |-> "none", val |-> v]
Raise(e) == [exc |-> e, val |-> JNull]

\* key in v
Contains(key, v) ==
    CASE v.t = "dict" -> Ok(key \in DOMAIN v.map)
      [] v.t = "list" -> Ok(\E n \in 1..Len(v.items) : v.items[n] = JStr(key))
      [] v.t = "null" -> Raise("TypeError")

\* len(r)
PyLen(r) ==
    IF r.exc # "none" THEN r
    ELSE CASE r.val.t = "list" -> Ok(Len(r.val.items))
           [] r.val.t = "dict" -> Ok(Cardinality(DOMAIN r.val.map))
           [] r.val.t = "str" -> Ok(Len(r.val.s))
           [] r.val.t = "null" -> Raise("TypeError")

\* r['key']
GetItemStr(r, key) ==
    IF r.exc # "none" THEN r
    ELSE CASE r.val.t = "dict" ->
                  IF key \in DOMAIN r.val.map THEN Ok(r.val.map[key])
                  ELSE Raise("KeyError")
           [] r.val.t \in {"list", "str", "null"} -> Raise("TypeError")

\* r[n], n a 0-based integer index
GetItemInt(r, n) ==
    IF r.exc # "none" THEN r
    ELSE CASE r.val.t = "list" ->
                  IF n < Len(r.val.items) THEN Ok(r.val.items[n + 1])
                  ELSE Raise("IndexError")
           [] r.val.t = "dict" -> Raise("KeyError")
           [] r.val.t = "null" -> Raise("TypeError")

----------------------------------------------------------------------------
(* Fixed strings of the program *)

NoResponseText == "Sorry, I couldn't generate a response. Please try again."
ConnectFallbackText == "I'm sorry, I am unable to connect to the AI service right now. Please check your network and try again."
ProcessingErrorText == "An unexpected error occurred while processing the AI response."
UnavailableText == "I'm sorry, the service is currently unavailable. Please try again later."
GenericErrorText == "An unexpected error occurred. Please try again."
ImageInstruction == "Analyze this image for signs of crop disease or pests. Identify the issue and provide a concise, actionable remedy. Be specific about the diagnosis and potential treatments."
SystemInstruction == "You are a helpful and knowledgeable AI Farmer Assistant. Answer questions about crops, soil, weather, fertilizers, pests, and market rates. Use Google Search to get the most up-to-date information, especially for weather and market prices. Provide concise, easy-to-understand advice for a farmer."

----------------------------------------------------------------------------
(* Inputs: request bodies *)

Comma == ","
ImgAlphabet == {Comma, "A"}
ImageStrings == UNION {[1..n -> ImgAlphabet] : n \in 0..MaxImgLen}
Messages == {"", "diagnose"}

Merge(a, b) == [k \in DOMAIN a \cup DOMAIN b |-> IF k \in DOMAIN a THEN a[k] ELSE b[k]]

\* request.json: "message" missing or a string, "imageData" missing, null or a string
Requests ==
    {Merge(m, im) :
        m \in {EmptyMap} \cup {[message |-> Str(s)] : s \in Messages},
        im \in {EmptyMap} \cup {[imageData |-> v] : v \in {None} \cup {Str(s) : s \in ImageStrings}}}

\* dict.get(key, default)
Get(d, key, default) == IF key \in DOMAIN d THEN d[key] ELSE default

\* variant of Truthy: a test against None
Truthy_is_not_none(v) == v.t # "None"

\* truth value of a str-or-None in a condition
Truthy(v) == v.t # "None" /\ Len(v.s) > 0

----------------------------------------------------------------------------
(* Inputs: what the AI service answers *)

RequestExceptions == {"ConnectionError", "Timeout", "HTTPError"}

Texts == {"Use neem oil."}
ExtraText == "Rotate the crop."

\* lists whose first item is x, followed by up to MaxExtra copies of filler
ListsOf(X, filler) ==
    {JList(<<>>)} \cup
    {JList(<<x>> \o [n \in 1..k |-> filler]) : x \in X, k \in 0..MaxExtra}

PartVals ==
    {JDict([text |-> JStr(s)]) : s \in Texts}
    \cup {JDict([inlineData |-> JNull]), JStr("x")}
PartsVals == ListsOf(PartVals, JDict([text |-> JStr(ExtraText)])) \cup {JNull}
ContentVals ==
    {JDict([parts |-> p, role |-> JStr("model")]) : p \in PartsVals}
    \cup {JDict([role |-> JStr("model")]), JNull}
CandidateVals ==
    {JDict([content |-> c]) : c \in ContentVals}
    \cup {JDict([finishReason |-> JStr("SAFETY")]), JStr("x")}
ExtraCandidate ==
    JDict([content |-> JDict([parts |-> JList(<<JDict([text |-> JStr(ExtraText)])>>),
                              role |-> JStr("model")])])
CandidatesVals ==
    ListsOf(CandidateVals, ExtraCandidate)
    \cup {JNull, JDict(EmptyMap), JDict([first |-> ExtraCandidate])}
Bodies ==
    {JDict([candidates |-> c]) : c \in CandidatesVals}
    \cup {JDict([promptFeedback |-> JStr("BLOCKED")]), JDict(EmptyMap), JList(<<>>), JNull}

----------------------------------------------------------------------------
(* handle_image_query / handle_text_query: payload construction *)

\* str.split(','), one character at a time
RECURSIVE split(_)
split(s) ==
    IF s = <<>> THEN << <<>> >>
    ELSE LET r == split(Tail(s)) IN
         IF Head(s) = Comma THEN << <<>> >> \o r
         ELSE << <<Head(s)>> \o Head(r) >> \o Tail(r)

\* variant of strip_header: index 0 for index 1
strip_header_first(s) == Ok(split(s)[1])

\* image_data.split(',')[1]
strip_header(s) ==
    LET segs == split(s) IN
    IF Len(segs) > 1 THEN Ok(segs[2]) ELSE Raise("IndexError")

NoPayload == [contents |-> <<>>]

image_payload(um, img) ==
    LET d == strip_header(img.s) IN
    IF d.exc # "none" THEN d
    ELSE Ok([contents |-> <<
                [parts |-> << [text |-> ImageInstruction],
                              [inlineData |-> [mimeType |-> "image/jpeg", data |-> d.val]],
                              [text |-> um.s] >>] >>,
             generationConfig |-> [temperature |-> "0.2"]])

\* variant of text_payload: the temperature of the image builder
text_payload_cold(um) ==
    [contents |-> << [parts |-> << [text |-> um.s] >>] >>,
     tools |-> << [google_search |-> EmptyMap] >>,
     systemInstruction |-> [parts |-> << [text |-> SystemInstruction] >>],
     generationConfig |-> [temperature |-> "0.2"]]

text_payload(um) ==
    [contents |-> << [parts |-> << [text |-> um.s] >>] >>,
     tools |-> << [google_search |-> EmptyMap] >>,
     systemInstruction |-> [parts |-> << [text |-> SystemInstruction] >>],
     generationConfig |-> [temperature |-> "0.7"]]

----------------------------------------------------------------------------
(* call_gemini_api: the pieces of the retry loop *)

max_retries == 5

\* variants of may_retry: giving up one attempt early, sleeping after the last attempt
may_retry_early(n) == n < max_retries - 2
may_retry_always(n) == n < max_retries

\* the condition guarding the sleep
may_retry(n) == n < max_retries - 1

\* variant of backoff: linear instead of exponential
backoff_linear(n) == 2 * n

\* the argument of time.sleep
backoff(n) == 2 ^ n

\* variant of parse_errors: IndexError forgotten
parse_errors_key_only == {"KeyError"}

\* the exceptions of the second except clause
parse_errors == {"KeyError", "IndexError"}

\* variant of is_nonempty: >= for >
is_nonempty_ge(n) == n >= 0

\* len(api_response['candidates']) > 0
is_nonempty(n) == n > 0

\* api_response['candidates'][0]['content']['parts'][0]['text']
first_text(b) ==
    GetItemStr(GetItemInt(GetItemStr(GetItemStr(GetItemInt(
        GetItemStr(Ok(b), "candidates"), 0), "content"), "parts"), 0), "text")

\* the statements after response.json(): the value returned or the exception raised
parse(b) ==
    LET has == Contains("candidates", b) IN
    IF has.exc # "none" THEN has
    ELSE IF ~has.val THEN Ok(NoResponseText)
    ELSE LET n == PyLen(GetItemStr(Ok(b), "candidates")) IN
         IF n.exc # "none" THEN n
         ELSE IF is_nonempty(n.val)
              THEN LET t == first_text(b) IN
                   IF t.exc # "none" THEN t ELSE Ok(t.val.s)
              ELSE Ok(NoResponseText)

----------------------------------------------------------------------------
(* State machine *)

NotCalled == [kind |-> "none", val |-> ""]
Returned(s) == [kind |-> "return", val |-> s]
Raised(e) == [kind |-> "raise", val |-> e]

Init ==
    /\ pc = "idle"
    /\ data = EmptyMap
    /\ user_message = Str("")
    /\ image_data = None
    /\ invoked = <<>>
    /\ payload = NoPayload
    /\ i = 0
    /\ calls = 0
    /\ sleeps = <<>>
    /\ outcomes = <<>>
    /\ error = ""
    /\ api_response = JNull
    /\ ret = NotCalled
    /\ status = 0
    /\ response = ""

\* the builder's jsonify({"response": ...}) after call_gemini_api returned s
AnswerOk(s) ==
    /\ ret' = Returned(s)
    /\ status' = 200
    /\ response' = s
    /\ pc' = "done"

\* the except clause of chat, after exception e left call_gemini_api
AnswerError(e) ==
    /\ ret' = Raised(e)
    /\ status' = 500
    /\ response' = GenericErrorText
    /\ pc' = "done"

\* POST /api/chat with JSON body d: chat up to the builder's call of call_gemini_api
chat(d) ==
    /\ pc \in {"idle", "done"}
    /\ LET um == Get(d, "message", Str(""))
           img == Get(d, "imageData", None)
       IN /\ data' = d
          /\ user_message' = um
          /\ image_data' = img
          /\ i' = 0
          /\ calls' = 0
          /\ sleeps' = <<>>
          /\ outcomes' = <<>>
          /\ api_response' = JNull
          /\ ret' = NotCalled
          /\ IF Truthy(img)
             THEN /\ invoked' = <<"handle_image_query">>
                  /\ LET p == image_payload(um, img) IN
                     IF p.exc # "none"
                     THEN /\ payload' = NoPayload
                          /\ error' = p.exc
                          /\ status' = 500
                          /\ response' = GenericErrorText
                          /\ pc' = "done"
                     ELSE /\ payload' = p.val
                          /\ error' = ""
                          /\ status' = 0
                          /\ response' = ""
                          /\ pc' = "call"
             ELSE /\ invoked' = <<"handle_text_query">>
                  /\ payload' = text_payload(um)
                  /\ error' = ""
                  /\ status' = 0
                  /\ response' = ""
                  /\ pc' = "call"

\* the first except clause, entered with a RequestException of class e
\* raised by an attempt whose outcome is o
on_request_exception(o, e) ==
    /\ calls' = calls + 1
    /\ outcomes' = Append(outcomes, o)
    /\ error' = e
    /\ UNCHANGED api_response
    /\ IF may_retry(i)
       THEN /\ sleeps' = Append(sleeps, backoff(i))
            /\ IF i + 1 < max_retries
               THEN /\ i' = i + 1
                    /\ UNCHANGED <<pc, ret, status, response>>
               ELSE /\ UNCHANGED i
                    /\ AnswerOk(UnavailableText)
       ELSE /\ UNCHANGED <<sleeps, i>>
            /\ AnswerOk(ConnectFallbackText)

\* an attempt whose requests.post or raise_for_status raises
attempt_transport_failure(e) ==
    /\ pc = "call"
    /\ on_request_exception("transport", e)
    /\ UNCHANGED <<data, user_message, image_data, invoked, payload>>

\* an attempt that gets a 2xx answer with JSON body b
attempt_json(b) ==
    /\ pc = "call"
    /\ calls' = calls + 1
    /\ outcomes' = Append(outcomes, "2xx")
    /\ api_response' = b
    /\ LET r == parse(b) IN
       /\ error' = IF r.exc = "none" THEN error ELSE r.exc
       /\ IF r.exc = "none" THEN AnswerOk(r.val)
          ELSE IF r.exc \in parse_errors THEN AnswerOk(ProcessingErrorText)
          ELSE AnswerError(r.exc)
    /\ UNCHANGED <<data, user_message, image_data, invoked, payload, i, sleeps>>

\* an attempt that gets a 2xx answer whose body is not JSON: response.json()
\* raises requests.exceptions.JSONDecodeError, a RequestException, with
\* requests 2.27 and later, and a plain ValueError with earlier releases
attempt_not_json ==
    /\ pc = "call"
    /\ \/ on_request_exception("not_json", "JSONDecodeError")
       \/ /\ calls' = calls + 1
          /\ outcomes' = Append(outcomes, "not_json")
          /\ error' = "ValueError"
          /\ AnswerError("ValueError")
          /\ UNCHANGED <<api_response, i, sleeps>>
    /\ UNCHANGED <<data, user_message, image_data, invoked, payload>>

Next ==
    \/ \E d \in Requests : chat(d)
    \/ \E e \in RequestExceptions : attempt_transport_failure(e)
    \/ \E b \in Bodies : attempt_json(b)
    \/ attempt_not_json

Spec == Init /\ [][Next]_vars

----------------------------------------------------------------------------
TypeOK ==
    /\ pc \in {"idle", "call", "done"}
    /\ i \in 0..(max_retries - 1)
    /\ calls \in 0..max_retries
    /\ status \in {0, 200, 500}

----------------------------------------------------------------------------
(* Vocabulary of the properties, stated on the inputs and not on the code *)

Last(seq) == seq[Len(seq)]
Front(seq) == SubSeq(seq, 1, Len(seq) - 1)
AllTransport(seq) == \A n \in 1..Len(seq) : seq[n] = "transport"

\* the last attempt got a JSON 2xx answer and every earlier one failed at transport level
EndedOn2xx ==
    /\ pc = "done"
    /\ outcomes # <<>>
    /\ Last(outcomes) = "2xx"
    /\ AllTransport(Front(outcomes))

IsDictWith(v, key) == v.t = "dict" /\ key \in DOMAIN v.map
IsNonEmptyList(v) == v.t = "list" /\ Len(v.items) > 0

\* b has a string at candidates[0].content.parts[0].text
IsWellFormed(b) ==
    /\ IsDictWith(b, "candidates")
    /\ IsNonEmptyList(b.map.candidates)
    /\ IsDictWith(b.map.candidates.items[1], "content")
    /\ IsDictWith(b.map.candidates.items[1].map.content, "parts")
    /\ IsNonEmptyList(b.map.candidates.items[1].map.content.map.parts)
    /\ IsDictWith(b.map.candidates.items[1].map.content.map.parts.items[1], "text")
    /\ b.map.candidates.items[1].map.content.map.parts.items[1].map.text.t = "str"

WellFormedText(b) == b.map.candidates.items[1].map.content.map.parts.items[1].map.text.s

\* b has a non-empty candidates list, and a key or an index is missing on the
\* path candidates[0].content.parts[0].text
MissesKeyOrIndex(b) ==
    /\ IsDictWith(b, "candidates")
    /\ IsNonEmptyList(b.map.candidates)
    /\ LET c == b.map.candidates.items[1] IN
       /\ c.t = "dict"
       /\ \/ "content" \notin DOMAIN c.map
          \/ /\ c.map.content.t = "dict"
             /\ \/ "parts" \notin DOMAIN c.map.content.map
                \/ c.map.content.map.parts = JList(<<>>)
                \/ /\ IsNonEmptyList(c.map.content.map.parts)
                   /\ c.map.content.map.parts.items[1].t = "dict"
                   /\ "text" \notin DOMAIN c.map.content.map.parts.items[1].map

\* b is an object with an empty candidates list or with no candidates key
HasNoCandidates(b) ==
    /\ b.t = "dict"
    /\ \/ "candidates" \notin DOMAIN b.map
       \/ b.map.candidates = JList(<<>>)

HasImageString == "imageData" \in DOMAIN data /\ data.imageData.t = "str"
ImageAbsent == "imageData" \notin DOMAIN data \/ data.imageData.t = "None"
InputMessage == IF "message" \in DOMAIN data THEN data.message.s ELSE ""
HasComma(s) == \E n \in 1..Len(s) : s[n] = Comma
AfterFirstComma(s) ==
    LET n == CHOOSE n \in 1..Len(s) : s[n] = Comma /\ \A m \in 1..(n - 1) : s[m] # Comma
    IN SubSeq(s, n + 1, Len(s))

----------------------------------------------------------------------------
(* Properties *)

\* C1: when attempts 1..k-1 fail at transport level and attempt k gets a
\* well-formed 2xx answer, exactly k calls are made, the sleeps are
\* 1, 2, ..., 2^(k-2) in that order, each one before the next attempt, and the
\* first candidate's first text part of attempt k's body is returned.
C1_BackoffThenSuccess ==
    /\ (pc = "call" /\ AllTransport(outcomes)) =>
           /\ calls = Len(outcomes)
           /\ sleeps = [j \in 1..calls |-> 2 ^ (j - 1)]
    /\ (EndedOn2xx /\ IsWellFormed(api_response)) =>
           LET k == Len(outcomes) IN
           /\ k \in 1..5
           /\ calls = k
           /\ sleeps = [j \in 1..(k - 1) |-> 2 ^ (j - 1)]
           /\ ret = Returned(WellFormedText(api_response))

C1_Witness ==
    /\ EndedOn2xx
    /\ IsWellFormed(api_response)
    /\ Len(outcomes) = 5
    /\ sleeps = <<1, 2, 4, 8>>
    /\ Len(api_response.map.candidates.items) > 1
    /\ ret = Returned("Use neem oil.")

\* C2: when every attempt fails at transport level, exactly 5 attempts are
\* made and the connectivity fallback is returned as a normal value.
C2_AllAttemptsFail ==
    /\ calls <= 5
    /\ (pc = "done" /\ outcomes # <<>> /\ AllTransport(outcomes)) =>
           /\ calls = 5
           /\ Len(outcomes) = 5
           /\ ret = Returned(ConnectFallbackText)

C2_Witness ==
    /\ pc = "done"
    /\ Len(outcomes) = 5
    /\ AllTransport(outcomes)
    /\ ret = Returned(ConnectFallbackText)

\* C3: every request that reaches the gateway client is answered with status
\* 200 and a response string, whatever the AI service does on each attempt
\* (transport failure, or a 2xx answer with any JSON body).
C3_ServiceFailuresAnswered200 ==
    (pc = "done" /\ calls > 0 /\ \A n \in 1..Len(outcomes) : outcomes[n] \in {"transport", "2xx"})
        => (status = 200 /\ ret.kind = "return" /\ response = ret.val)

\* C4: a 2xx body with a non-empty candidates list and a key or index missing
\* on the path to the text ends the call at once with the processing-error
\* string: no further attempt, no sleep after that attempt.
C4_MissingKeyNoRetry ==
    (pc = "done" /\ outcomes # <<>> /\ Last(outcomes) = "2xx" /\ MissesKeyOrIndex(api_response)) =>
        /\ ret = Returned(ProcessingErrorText)
        /\ calls = Len(outcomes)
        /\ Len(sleeps) = calls - 1

C4_Witness ==
    /\ pc = "done"
    /\ Len(outcomes) = 3
    /\ Last(outcomes) = "2xx"
    /\ MissesKeyOrIndex(api_response)
    /\ api_response.map.candidates.items[1].map.content.map.parts = JList(<<>>)
    /\ ret = Returned(ProcessingErrorText)

\* C5: a 2xx body with an empty candidates list or without a candidates key
\* ends the call at once with the could-not-generate string, on whichever
\* attempt it occurs: no further attempt, no sleep after that attempt.
C5_NoCandidatesNoRetry ==
    (pc = "done" /\ outcomes # <<>> /\ Last(outcomes) = "2xx" /\ HasNoCandidates(api_response)) =>
        /\ ret = Returned(NoResponseText)
        /\ calls = Len(outcomes)
        /\ Len(sleeps) = calls - 1

C5_Witness ==
    /\ pc = "done"
    /\ Len(outcomes) = 5
    /\ Last(outcomes) = "2xx"
    /\ api_response = JDict([candidates |-> JList(<<>>)])
    /\ ret = Returned(NoResponseText)

\* C6 as stated: every imageData string, the empty one included, goes to the
\* image builder; absent or null imageData goes to the text builder; one
\* builder per request.
C6_RoutesOnPresence ==
    pc # "idle" =>
        /\ Len(invoked) = 1
        /\ HasImageString => invoked = <<"handle_image_query">>
        /\ ImageAbsent => invoked = <<"handle_text_query">>

\* C6, amended: a non-empty imageData string goes to the image builder;
\* absent, null or empty imageData goes to the text builder; one builder per
\* request.
C6_RoutesOnNonEmpty ==
    pc # "idle" =>
        /\ Len(invoked) = 1
        /\ (HasImageString /\ data.imageData.s # <<>>) => invoked = <<"handle_image_query">>
        /\ (ImageAbsent \/ (HasImageString /\ data.imageData.s = <<>>))
               => invoked = <<"handle_text_query">>

C6_Witness ==
    /\ pc = "call"
    /\ HasImageString
    /\ data.imageData.s = <<>>
    /\ invoked = <<"handle_text_query">>

\* C7: for imageData with at least one comma the payload has three parts
\* (instruction, image/jpeg inline image, message), temperature 0.2, and the
\* inline data is everything after the first comma of imageData.
C7_ImagePayload ==
    (pc # "idle" /\ HasImageString /\ HasComma(data.imageData.s)) =>
        payload = [contents |-> <<
                      [parts |-> << [text |-> ImageInstruction],
                                    [inlineData |-> [mimeType |-> "image/jpeg",
                                                     data |-> AfterFirstComma(data.imageData.s)]],
                                    [text |-> InputMessage] >>] >>,
                   generationConfig |-> [temperature |-> "0.2"]]

\* C8: for a request without imageData the payload has one part, the input
\* message unchanged, with search grounding, the persona instruction and
\* temperature 0.7.
C8_TextPayload ==
    (pc # "idle" /\ ImageAbsent) =>
        /\ Len(payload.contents) = 1
        /\ payload.contents[1].parts = << [text |-> InputMessage] >>
        /\ payload.tools = << [google_search |-> EmptyMap] >>
        /\ payload.systemInstruction = [parts |-> << [text |-> SystemInstruction] >>]
        /\ payload.generationConfig = [temperature |-> "0.7"]

C8_Witness ==
    /\ pc = "call"
    /\ ImageAbsent
    /\ "message" \in DOMAIN data
    /\ data.message.s = ""
    /\ payload.contents[1].parts = << [text |-> ""] >>

\* C9 as stated: every imageData string without a comma fails before any
\* outbound call and is answered with status 500 and the generic error body.
C9_NoCommaIs500 ==
    (pc # "idle" /\ HasImageString /\ ~HasComma(data.imageData.s)) =>
        /\ pc = "done"
        /\ calls = 0
        /\ sleeps = <<>>
        /\ status = 500
        /\ response = GenericErrorText

\* C9, amended: every non-empty imageData string without a comma fails before
\* any outbound call and is answered with status 500 and the generic error
\* body.
C9_NonEmptyNoCommaIs500 ==
    (pc # "idle" /\ HasImageString /\ data.imageData.s # <<>> /\ ~HasComma(data.imageData.s)) =>
        /\ pc = "done"
        /\ calls = 0
        /\ sleeps = <<>>
        /\ status = 500
        /\ response = GenericErrorText

C9_Witness ==
    /\ pc = "done"
    /\ HasImageString
    /\ data.imageData.s = <<"A">>
    /\ invoked = <<"handle_image_query">>
    /\ error = "IndexError"
    /\ status = 500

\* C10: a value returned by call_gemini_api is the extracted text, the
\* could-not-generate string, the unable-to-connect string or the
\* processing-error string, and never the service-unavailable string.
C10_ReturnValues ==
    ret.kind = "return" =>
        /\ ret.val # UnavailableText
        /\ \/ ret.val \in {NoResponseText, ConnectFallbackText, ProcessingErrorText}
           \/ /\ Last(outcomes) = "2xx"
              /\ IsWellFormed(api_response)
              /\ ret.val = WellFormedText(api_response)

C10_Witness ==
    /\ ret = Returned(ConnectFallbackText)
    /\ calls = max_retries
    /\ Len(sleeps) = max_retries - 1

====
